---- MODULE Spec2Model ----
(***************************************************************************)
(* Stock-Notifier: one monitoring pass (src/app/core.py run_once) over a   *)
(* persisted alert-state file (src/app/state.py), with the push dispatch   *)
(* (src/app/ntfy.py) and the quote provider (src/app/market.py) as         *)
(* nondeterministic collaborators.  Each process run (main.py) performs    *)
(* one pass; the state file is what survives between runs.                 *)
(*                                                                         *)
(* Prices are integers (cents); percentages are whole percents.  The       *)
(* modelled quotes move a whole number of percents from the open, so the   *)
(* integer quotient in Pct is exact where Python computes with floats.     *)
(***************************************************************************)
EXTENDS Integers, Sequences, FiniteSets, TLC

\* ---------------------------------------------------------------- bounds
\* Quotes move at most MaxMove percent away from the open.
MaxMove == 4

\* thresholds and percentages drawn for the classification on its own
MaxThreshold == 5
MaxPct == 6

\* longest series the quote provider answers with
MaxSeries == 2

\* largest limit passed to fetch_headlines
MaxLimit == 4

\* longest headline title, in characters
MaxTitle == 2

\* ------------------------------------------------------- program constants
StartHour == 8
EndHour == 22
DefaultThreshold == 3

\* ------------------------------------------------------------ input sets
\* tickers in caller-supplied order (config "tickers")
Tickers == <<"A", "B">>
\* keys that may occur in the state file: the tickers and one stale entry
Keys == {"A", "B", "Z"}
Dirs == {"none", "up", "down"}
Absent == "absent"
\* value of a key in a dict-shaped state: a direction, or no entry
Vals == Dirs \cup {Absent}
Moves == (0 - MaxMove)..MaxMove
OpenPrices == {0, 5000, 10000}
ForcedDeltas == {0 - 3, 4}
Hours == {7, 8, 21, 22}
Weekdays == {4, 5}

\* what a JSON object in the state file may hold for a key: a direction, no
\* entry, or some other JSON value ("other")
FileVals == Vals \cup {"other"}

EmptyMap == [k \in Keys |-> Absent]
StateMaps ==
    {m \in [Keys -> FileVals] : m["Z"] \in {Absent, "up"} /\ m["B"] # "other"}
\* a loaded value that is no dict (a JSON list, string, number or null)
NotADict == [k \in Keys |-> "nondict"]
\* contents of the state file: no file, unparsable text, JSON that is not an
\* object, or a JSON object
FileKinds == {"missing", "garbage", "nondict", "object"}

\* ------------------------------------------------------- pure functions

\* core.py:203  pct = (last_px - open_px) / open_px * 100.0
Pct(open_px, last_px) == ((last_px - open_px) * 100) \div open_px

\* core.py:210  last_px = open_px * (1.0 + pct / 100.0)
ForcedLast(open_px, pct) == open_px + (open_px * pct) \div 100

DirectionStrict(pct, thr) ==
    IF pct > thr THEN "up" ELSE IF pct < 0 - thr THEN "down" ELSE "none"

\* core.py:215
Direction(pct, thr) ==
    IF pct >= thr THEN "up" ELSE IF pct <= 0 - thr THEN "down" ELSE "none"

ForcedIgnoresEnabled(c) == c.force_set

\* core.py:206  test_cfg.get("enabled") and
\* test_cfg.get("force_delta_pct") is not None
Forced(c) == c.enabled /\ c.force_set

\* what get_open_and_last gave: no data, data with a zero open, usable data
QuoteKind(q) ==
    IF q.kind = "nodata" THEN "nodata"
    ELSE IF q.open = 0 THEN "zero" ELSE "data"

QuoteErrorUnlessForced(q, c) ==
    IF c.enabled /\ c.force_set THEN "none"
    ELSE IF q.kind = "nodata" THEN "nodata"
    ELSE IF q.open = 0 THEN "zero_open"
    ELSE "none"

\* core.py:199-201  the error raised before pct is computed, whatever the
\* test section c says: RuntimeError from get_open_and_last, or a zero open
QuoteError(q, c) ==
    IF q.kind = "nodata" THEN "nodata"
    ELSE IF q.open = 0 THEN "zero_open"
    ELSE "none"

\* core.py:214  state.get(tk, "none")
StateGet(st, tk) == IF st[tk] = Absent THEN "none" ELSE st[tk]

\* core.py:214  state.get exists only when the loaded value is a dict
HasGet(st) == st # NotADict

is_market_hours_end_included(m) ==
    IF ~m.enabled THEN TRUE
    ELSE IF m.days_mon_to_fri_only /\ m.weekday >= 5 THEN FALSE
    ELSE m.start_hour <= m.hour /\ m.hour <= m.end_hour

\* core.py:151-156  m holds the market_hours section together with the
\* weekday (Monday = 0) and hour of now_tz(m.tz)
is_market_hours(m) ==
    IF ~m.enabled THEN TRUE
    ELSE IF m.days_mon_to_fri_only /\ m.weekday >= 5 THEN FALSE
    ELSE m.start_hour <= m.hour /\ m.hour < m.end_hour

BypassAlways(c) == c.bypass_market_hours

BypassNever(c) == FALSE

\* core.py:187  test_cfg.get("enabled") and test_cfg.get("bypass_market_hours")
Bypass(c) == c.enabled /\ c.bypass_market_hours

\* core.py:186-190
Within(m, c) == is_market_hours(m) \/ Bypass(c)

\* a load that keeps the entries of the listed tickers only
load_state_listed_only(f) ==
    IF f.kind = "object"
    THEN [k \in Keys |->
            IF \E i \in 1..Len(Tickers) : Tickers[i] = k THEN f.map[k]
            ELSE Absent]
    ELSE IF f.kind = "nondict" THEN NotADict
    ELSE EmptyMap

\* state.py:29-37  whatever json.loads returns is returned as it is; {} when
\* the file does not exist or json.loads raises
load_state(f) ==
    IF f.kind = "object" THEN f.map
    ELSE IF f.kind = "nondict" THEN NotADict
    ELSE EmptyMap

save_state_skip(f, st) == f

\* state.py:57  the file at path is overwritten with the whole mapping
save_state(f, st) == [kind |-> "object", map |-> st]

\* an alert for every cycle outside the corridor
ShouldFireAlways(direction, prev) == direction # "none"

\* core.py:217
ShouldFire(direction, prev) == direction # "none" /\ direction # prev

ShouldResetNever(direction, prev) == FALSE

ShouldResetAlways(direction, prev) == direction = "none"

\* core.py:283-285
ShouldReset(direction, prev) == direction = "none" /\ prev # "none"

\* -------------------------------------------------------------- inputs
ForceOptions ==
    {[force_set |-> FALSE, force_delta_pct |-> 0]} \cup
    {[force_set |-> TRUE, force_delta_pct |-> fd] : fd \in ForcedDeltas}

\* core.py:234  int(news_cfg.get("lookback_hours", 12))
DefaultLookback == 12
\* configured lookback windows: shorter and longer than the fallback's floor
LookbackChoices == {6, 24}

\* test_cfg and the enabled and lookback_hours entries of news_cfg as passed
\* to run_once
AllCfgs ==
    {[enabled |-> e, bypass_market_hours |-> b, force_set |-> f.force_set,
      force_delta_pct |-> f.force_delta_pct, dry_run |-> d,
      news_enabled |-> n, lookback_hours |-> h] :
        e \in BOOLEAN, b \in BOOLEAN, d \in BOOLEAN, n \in BOOLEAN,
        f \in ForceOptions, h \in LookbackChoices \cup {DefaultLookback}}

\* config.py:31-36  the default test section (test mode off), news on or off
PlainCfgs ==
    {c \in AllCfgs : /\ ~c.enabled /\ c.bypass_market_hours
                     /\ ~c.force_set /\ ~c.dry_run
                     /\ c.news_enabled <=> c.lookback_hours # DefaultLookback}

\* test mode on or off, bypass flag set or unset; no forced delta, no news
GateCfgs ==
    {c \in AllCfgs : /\ ~c.force_set /\ ~c.dry_run /\ ~c.news_enabled
                     /\ c.lookback_hours = DefaultLookback}

MhInputs ==
    [enabled : BOOLEAN, days_mon_to_fri_only : BOOLEAN,
     weekday : Weekdays, hour : Hours,
     start_hour : {StartHour}, end_hour : {EndHour}]

NoData == [kind |-> "nodata", open |-> 0, last |-> 0]
QuoteResults ==
    {NoData} \cup
    {[kind |-> "data", open |-> o, last |-> o + (k * o) \div 100] :
        o \in OpenPrices, k \in Moves}

VARIABLES
    threshold_pct,  \* run_once argument
    file,           \* the persisted alert-state file
    cfg,            \* test_cfg + news_cfg.enabled of the current run
    mh,             \* market_hours_cfg and the clock read at the gate
    pc,             \* position of the run
    idx,            \* index of the ticker being processed (for tk in tickers)
    state,          \* run_once's in-memory state mapping
    loc,            \* locals of the current loop iteration
    res,            \* how the loop iteration that ended last went
    processed,      \* tickers whose loop iteration ended in this run
    failed,         \* tickers whose loop iteration ended in the handler
    effects,        \* side effects of the gate / of the current iteration
    lastDir,        \* per ticker: direction classified in its previous
                    \* completed cycle ("none" when there is none)
    lastDry,        \* per ticker: the latch in force was set by an alert
                    \* of a dry-run cycle and kept by every cycle since
    call            \* a library call followed on its own (get_open_and_last,
                    \* fetch_headlines, filter_titles): arguments, locals
                    \* and result

vars == <<threshold_pct, file, cfg, mh, pc, idx, state, loc, res, processed,
          failed, effects, lastDir, lastDry, call>>

NoLoc == [quote |-> "-", fetched_last |-> 0, open_px |-> 0, last_px |-> 0,
          pct |-> 0, prev |-> "-",
          direction |-> "-", fetched |-> <<>>, news |-> "-", items |-> 0,
          sent |-> "no"]
NoRes == [tk |-> "-", quote |-> "-", outcome |-> "-", prev |-> "-",
          direction |-> "-",
          sent |-> "no"]
NoCfg == [enabled |-> FALSE, bypass_market_hours |-> FALSE,
          force_set |-> FALSE, force_delta_pct |-> 0, dry_run |-> FALSE,
          news_enabled |-> FALSE, lookback_hours |-> DefaultLookback]
NoMh == [enabled |-> FALSE, days_mon_to_fri_only |-> FALSE,
         weekday |-> 4, hour |-> 8, start_hour |-> StartHour,
         end_hour |-> EndHour]
NoCall == [fn |-> "-"]
TickerSet == {Tickers[i] : i \in 1..Len(Tickers)}
Stopped == {"idle", "outside", "done", "crashed"}

\* everything but the state file, the threshold and the library call, before
\* the first run
InitRun ==
    /\ cfg = NoCfg
    /\ mh = NoMh
    /\ idx = 0
    /\ state = EmptyMap
    /\ loc = NoLoc
    /\ res = NoRes
    /\ processed = {}
    /\ failed = {}
    /\ effects = {}
    /\ lastDir = [t \in TickerSet |-> "none"]
    /\ lastDry = [t \in TickerSet |-> FALSE]

Init ==
    /\ threshold_pct = DefaultThreshold
    /\ call = NoCall
    /\ file \in {[kind |-> k, map |-> EmptyMap] :
                    k \in FileKinds \ {"object"}} \cup
                {[kind |-> "object", map |-> m] : m \in StateMaps}
    /\ pc = "idle"
    /\ InitRun

\* ---------------------------------------------------------------- helpers
tk == Tickers[idx]
InLoop == idx \in 1..Len(Tickers)

Errors == {"nodata", "zero_open", "state_err", "news_err", "dispatch_err",
           "save_err"}

AfterErrorAbort(i) == Len(Tickers) + 1

\* core.py:197,295-297  the handler only logs: the for loop goes on with the
\* ticker after index i
AfterError(i) == i + 1

\* the loop iteration of tk ends with outcome oc after classifying l (NoLoc
\* when it did not get that far); control moves to index n; ld is the
\* direction remembered for the next cycle of tk
EndIteration(oc, l, n, ld) ==
    /\ res' = [tk |-> tk, quote |-> l.quote, outcome |-> oc, prev |-> l.prev,
               direction |-> l.direction, sent |-> l.sent]
    /\ processed' = processed \cup {tk}
    /\ failed' = IF oc \in Errors THEN failed \cup {tk} ELSE failed
    /\ lastDir' = [lastDir EXCEPT ![tk] = ld]
    /\ lastDry' = [lastDry EXCEPT ![tk] =
                      IF l.sent = "dry" THEN oc = "ok"
                      ELSE IF l.sent = "no" /\ ld = lastDir[tk] THEN @
                      ELSE FALSE]
    /\ idx' = n
    /\ pc' = IF n > Len(Tickers) THEN "done" ELSE "quote"
    /\ loc' = NoLoc

\* ---------------------------------------------------------------- actions

\* main.py:22-48  a new process run calls run_once with a configuration
\* from C and reads the clock
StartCycle(C) ==
    /\ pc \in Stopped
    /\ cfg' \in C
    /\ mh' \in MhInputs
    /\ pc' = "gate"
    /\ idx' = 0
    /\ state' = EmptyMap
    /\ loc' = NoLoc
    /\ res' = NoRes
    /\ processed' = {}
    /\ failed' = {}
    /\ effects' = {}
    /\ UNCHANGED <<call, threshold_pct, file, lastDir, lastDry>>

\* core.py:186-193  outside market hours: return
GateOutside ==
    /\ pc = "gate"
    /\ ~Within(mh, cfg)
    /\ pc' = "outside"
    /\ UNCHANGED <<call, threshold_pct, file, cfg, mh, idx, state, loc, res,
                   processed, failed, effects, lastDir, lastDry>>

\* core.py:186-195  within hours (or bypassed): load the state; the clock
\* is not read again.  "bypassed" is the log line of core.py:190 reporting
\* is_market_hours false with effective true.
GateWithin ==
    /\ pc = "gate"
    /\ Within(mh, cfg)
    /\ state' = load_state(file)
    /\ effects' = effects \cup {"read"} \cup
                  (IF is_market_hours(mh) THEN {} ELSE {"bypassed"})
    /\ idx' = 1
    /\ pc' = "quote"
    /\ mh' = NoMh
    /\ UNCHANGED <<call, threshold_pct, file, cfg, loc, res, processed, failed,
                   lastDir, lastDry>>

\* core.py:199 with market.py:57-59  no data by any method: RuntimeError,
\* caught at core.py:295
QuoteNoData ==
    /\ pc = "quote" /\ InLoop
    /\ \E q \in QuoteResults :
          /\ QuoteError(q, cfg) = "nodata"
    /\ effects' = {"quote"}
    /\ EndIteration("nodata", [NoLoc EXCEPT !.quote = "nodata"],
                    AfterError(idx), "none")
    /\ UNCHANGED <<call, threshold_pct, file, cfg, mh, state>>

\* core.py:200-201  open is 0: RuntimeError, caught at core.py:295
QuoteZeroOpen ==
    /\ pc = "quote" /\ InLoop
    /\ \E q \in QuoteResults :
          /\ QuoteError(q, cfg) = "zero_open"
    /\ effects' = {"quote"}
    /\ EndIteration("zero_open", [NoLoc EXCEPT !.quote = "zero"],
                    AfterError(idx), lastDir[tk])
    /\ UNCHANGED <<call, threshold_pct, file, cfg, mh, state>>

\* core.py:214  the loaded state is no dict: state.get raises AttributeError
\* after the quote was obtained; caught at core.py:295
QuoteStateRaise ==
    /\ pc = "quote" /\ InLoop
    /\ ~HasGet(state)
    /\ \E q \in QuoteResults :
          /\ QuoteError(q, cfg) = "none"
    /\ effects' = {"quote"}
    /\ EndIteration("state_err", [NoLoc EXCEPT !.quote = "data"],
                    AfterError(idx), lastDir[tk])
    /\ UNCHANGED <<call, threshold_pct, file, cfg, mh, state>>

\* core.py:203-215  pct (or the forced delta), prev and direction
Classified(q) ==
    LET forced == Forced(cfg)
        pct == IF forced THEN cfg.force_delta_pct ELSE Pct(q.open, q.last)
        last_px == IF forced THEN ForcedLast(q.open, pct) ELSE q.last
    IN  [quote |-> QuoteKind(q), fetched_last |-> q.last,
         open_px |-> q.open, last_px |-> last_px, pct |-> pct,
         prev |-> StateGet(state, tk),
         direction |-> Direction(pct, threshold_pct), fetched |-> <<>>,
         news |-> "-", items |-> 0,
         sent |-> "no"]

\* core.py:199-217  quote obtained, alert to be fired
QuoteFire ==
    /\ pc = "quote" /\ InLoop
    /\ \E q \in QuoteResults :
          /\ QuoteError(q, cfg) = "none"
          /\ HasGet(state)
          /\ ShouldFire(Classified(q).direction, Classified(q).prev)
          /\ loc' = Classified(q)
    /\ effects' = {"quote"}
    /\ pc' = IF cfg.news_enabled THEN "news" ELSE "notify"
    /\ UNCHANGED <<call, threshold_pct, file, cfg, mh, idx, state, res, processed,
                   failed, lastDir, lastDry>>

\* core.py:283-288  back in the corridor: reset the state, then save
QuoteReset ==
    /\ pc = "quote" /\ InLoop
    /\ \E q \in QuoteResults :
          /\ QuoteError(q, cfg) = "none"
          /\ HasGet(state)
          /\ ~ShouldFire(Classified(q).direction, Classified(q).prev)
          /\ ShouldReset(Classified(q).direction, Classified(q).prev)
          /\ loc' = Classified(q)
    /\ effects' = {"quote"}
    /\ state' = [state EXCEPT ![tk] = "none"]
    /\ pc' = "save"
    /\ UNCHANGED <<call, threshold_pct, file, cfg, mh, idx, res, processed,
                   failed, lastDir, lastDry>>

\* core.py:289-293  nothing to do: no alert, or already alerted
QuoteNoop ==
    /\ pc = "quote" /\ InLoop
    /\ \E q \in QuoteResults :
          /\ QuoteError(q, cfg) = "none"
          /\ HasGet(state)
          /\ ~ShouldFire(Classified(q).direction, Classified(q).prev)
          /\ ~ShouldReset(Classified(q).direction, Classified(q).prev)
          /\ EndIteration("ok", Classified(q), idx + 1,
                          Classified(q).direction)
    /\ effects' = {"quote"}
    /\ UNCHANGED <<call, threshold_pct, file, cfg, mh, state>>

\* number of headlines a fetch + filter may yield
ItemCounts == {0, 1}

NeedsFallbackNever(n) == FALSE

\* core.py:245-246  news_text is empty exactly when there are no items
\* (core.py:110-124: every item contributes a non-empty line)
NeedsFallback(n) == n = 0

FallbackLookbackSame(h) == h

\* core.py:251  max(12, int(news_cfg.get("lookback_hours", 12)))
FallbackLookback(h) == IF h > 12 THEN h ELSE 12

\* a fetch_headlines + filter_titles pair in locale lc with lookback h that
\* yielded n items
Fetched(lc, h, n) == [locale |-> lc, lookback |-> h, items |-> n]

\* core.py:226-245  primary-locale fetch + filter; its items make the
\* headline block unless there are none
NewsPrimary ==
    /\ pc = "news"
    /\ loc.fetched = <<>>
    /\ \E n \in ItemCounts :
          /\ loc' = [loc EXCEPT
                       !.fetched = <<Fetched("primary", cfg.lookback_hours, n)>>,
                       !.news = IF NeedsFallback(n) THEN "-" ELSE "primary",
                       !.items = n]
          /\ pc' = IF NeedsFallback(n) THEN "news" ELSE "notify"
    /\ effects' = effects \cup {"news"}
    /\ UNCHANGED <<call, threshold_pct, file, cfg, mh, idx, state, res,
                   processed, failed, lastDir, lastDry>>

\* core.py:246-264  secondary-locale fetch + filter with the widened
\* lookback; its items (possibly none) make the headline block
NewsFallback ==
    /\ pc = "news"
    /\ Len(loc.fetched) = 1
    /\ \E n \in ItemCounts :
          loc' = [loc EXCEPT
                    !.fetched = Append(@, Fetched("fallback",
                                    FallbackLookback(cfg.lookback_hours), n)),
                    !.news = "fallback",
                    !.items = n]
    /\ pc' = "notify"
    /\ effects' = effects \cup {"news"}
    /\ UNCHANGED <<call, threshold_pct, file, cfg, mh, idx, state, res,
                   processed, failed, lastDir, lastDry>>

\* core.py:226-264  an exception leaves the enrichment (company.py:170 cache
\* write, news.py:105-142 has no handler); caught at core.py:295
NewsRaise ==
    /\ pc = "news"
    /\ effects' = effects \cup {"news"}
    /\ EndIteration("news_err", loc, AfterError(idx), loc.direction)
    /\ UNCHANGED <<call, threshold_pct, file, cfg, mh, state>>

NtfyEffectsIgnoreDryRun(dry_run) == {"post"}

\* ntfy.py:50-73  what a call of notify_ntfy does: with dry_run it logs the
\* title and the message ("drylog") and returns; otherwise it makes one
\* requests.post ("post")
NtfyEffects(dry_run) == IF dry_run THEN {"drylog"} ELSE {"post"}

\* ntfy.py:50-77  how a call of notify_ntfy can return: at the dry-run log,
\* after the response, or after a RequestException that is only logged
NtfyReturns(dry_run) == IF dry_run THEN {"dry"} ELSE {"sent", "failed"}

\* core.py:269-280, ntfy.py:50-77  notify_ntfy returns (dry run, sent, or a
\* transport failure that is only logged); the state is latched in memory
Notify ==
    /\ pc = "notify"
    /\ \E r \in NtfyReturns(cfg.dry_run) : loc' = [loc EXCEPT !.sent = r]
    /\ effects' = effects \cup NtfyEffects(cfg.dry_run)
    /\ state' = [state EXCEPT ![tk] = loc.direction]
    /\ pc' = "save"
    /\ UNCHANGED <<call, threshold_pct, file, cfg, mh, idx, res, processed,
                   failed, lastDir, lastDry>>

\* ntfy.py:71-77  an exception other than requests.RequestException leaves
\* notify_ntfy; caught at core.py:295
NotifyRaise ==
    /\ pc = "notify"
    /\ ~cfg.dry_run
    /\ effects' = effects \cup NtfyEffects(cfg.dry_run)
    /\ EndIteration("dispatch_err", [loc EXCEPT !.sent = "raised"],
                    AfterError(idx), "none")
    /\ UNCHANGED <<call, threshold_pct, file, cfg, mh, state>>

\* core.py:281,288 with state.py:57  the state file is overwritten
Save ==
    /\ pc = "save"
    /\ file' = save_state(file, state)
    /\ effects' = effects \cup {"write"}
    /\ EndIteration("ok", loc, idx + 1, loc.direction)
    /\ UNCHANGED <<call, threshold_pct, cfg, mh, state>>

\* state.py:57  write_text raises (OSError); caught at core.py:295
SaveRaise ==
    /\ pc = "save"
    /\ EndIteration("save_err", loc, AfterError(idx), "none")
    /\ UNCHANGED <<call, threshold_pct, file, cfg, mh, state, effects>>

\* the process dies in the middle of a pass; only the file survives
Crash ==
    /\ pc \in {"quote", "news", "notify", "save"}
    /\ pc' = "crashed"
    /\ lastDir' = IF pc = "quote" THEN lastDir
                  ELSE [lastDir EXCEPT ![tk] = "none"]
    /\ lastDry' = IF pc = "quote" THEN lastDry
                  ELSE [lastDry EXCEPT ![tk] = FALSE]
    /\ UNCHANGED <<call, threshold_pct, file, cfg, mh, idx, state, loc, res,
                   processed, failed, effects>>

StartPlain == StartCycle(PlainCfgs)

Next ==
    \/ StartPlain
    \/ GateOutside
    \/ GateWithin
    \/ QuoteNoData
    \/ QuoteZeroOpen
    \/ QuoteStateRaise
    \/ QuoteFire
    \/ QuoteReset
    \/ QuoteNoop
    \/ NewsPrimary
    \/ NewsFallback
    \/ NewsRaise
    \/ Notify
    \/ NotifyRaise
    \/ Save
    \/ SaveRaise
    \/ Crash

\* runs with the default test section
Spec == Init /\ [][Next]_vars

\* the classification on its own: threshold and pct drawn from bounded sets
InitClassify ==
    /\ threshold_pct \in 1..MaxThreshold
    /\ file = [kind |-> "missing", map |-> EmptyMap]
    /\ pc = "classify"
    /\ cfg = NoCfg
    /\ mh = NoMh
    /\ idx = 0
    /\ state = EmptyMap
    /\ loc \in {[NoLoc EXCEPT !.pct = p] : p \in (0 - MaxPct)..MaxPct}
    /\ res = NoRes
    /\ processed = {}
    /\ failed = {}
    /\ effects = {}
    /\ lastDir = [t \in TickerSet |-> "none"]
    /\ lastDry = [t \in TickerSet |-> FALSE]
    /\ call = NoCall

\* core.py:215 applied to the drawn inputs
Classify ==
    /\ pc = "classify"
    /\ loc' = [loc EXCEPT !.direction = Direction(loc.pct, threshold_pct)]
    /\ pc' = "classified"
    /\ UNCHANGED <<call, threshold_pct, file, cfg, mh, idx, state, res, processed,
                   failed, effects, lastDir, lastDry>>

NextClassify == Classify

SpecClassify == InitClassify /\ [][NextClassify]_vars

\* runs with test mode on or off and the bypass flag set or unset
StartGate == StartCycle(GateCfgs)

NextGate ==
    \/ StartGate
    \/ GateOutside
    \/ GateWithin
    \/ QuoteNoData
    \/ QuoteZeroOpen
    \/ QuoteStateRaise
    \/ QuoteFire
    \/ QuoteReset
    \/ QuoteNoop
    \/ Notify
    \/ NotifyRaise
    \/ Save
    \/ SaveRaise
    \/ Crash

SpecGate == Init /\ [][NextGate]_vars

\* core.py:274  dry_run on or off, with test mode on or off; no forced
\* delta, no news
DryCfgs ==
    {c \in AllCfgs : /\ c.bypass_market_hours /\ ~c.force_set
                     /\ ~c.news_enabled
                     /\ c.lookback_hours = DefaultLookback}

StartDry == StartCycle(DryCfgs)

NextDry ==
    \/ StartDry
    \/ GateOutside
    \/ GateWithin
    \/ QuoteNoData
    \/ QuoteZeroOpen
    \/ QuoteStateRaise
    \/ QuoteFire
    \/ QuoteReset
    \/ QuoteNoop
    \/ Notify
    \/ NotifyRaise
    \/ Save
    \/ SaveRaise
    \/ Crash

\* runs with the dry-run flag set or unset
SpecDry == Init /\ [][NextDry]_vars

\* core.py:206-210  test mode on or off, with and without a forced delta;
\* no dry run, no news
ForceCfgs ==
    {c \in AllCfgs : /\ c.bypass_market_hours /\ ~c.dry_run
                     /\ ~c.news_enabled
                     /\ c.lookback_hours = DefaultLookback}

StartForce == StartCycle(ForceCfgs)

NextForce ==
    \/ StartForce
    \/ GateOutside
    \/ GateWithin
    \/ QuoteNoData
    \/ QuoteZeroOpen
    \/ QuoteStateRaise
    \/ QuoteFire
    \/ QuoteReset
    \/ QuoteNoop
    \/ Notify
    \/ NotifyRaise
    \/ Save
    \/ SaveRaise
    \/ Crash

\* runs with and without a forced test delta
SpecForce == Init /\ [][NextForce]_vars

\* ------------------------------------------------ get_open_and_last alone
\* market.py:37  intraday granularities, finest first
Intervals == <<"1m", "5m", "15m">>
\* market.py:38  attempts per granularity
Attempts == 2
\* market.py:57  granularity of the fallback request
DailyInterval == "1d"

\* what the provider may answer: an empty frame or a series of at most
\* MaxSeries samples
SamplePrices == {0, 100, 103}
Samples == [Open : SamplePrices, Close : SamplePrices]
Frames ==
    UNION {[1..n -> Samples] : n \in 0..MaxSeries}

AcceptsLongOnly(df) == Len(df) > 1

\* market.py:42,58  not df.empty
Accepts(df) == Len(df) > 0

IntradayOpenLastSameRow(df) == [open |-> df[1].Open, last |-> df[1].Close]

\* market.py:43-44  df.iloc[0]["Open"], df.iloc[-1]["Close"]
IntradayOpenLast(df) == [open |-> df[1].Open, last |-> df[Len(df)].Close]

DailyOpenLastFirstOpen(df) == [open |-> df[1].Open, last |-> df[Len(df)].Close]

\* market.py:61-62  row = df.iloc[-1]; row["Open"], row["Close"]
DailyOpenLast(df) ==
    [open |-> df[Len(df)].Open, last |-> df[Len(df)].Close]

\* market.py:10  the call starts with the first attempt at the first interval
InitQuote ==
    /\ threshold_pct = DefaultThreshold
    /\ file = [kind |-> "missing", map |-> EmptyMap]
    /\ pc = "intraday"
    /\ InitRun
    /\ call = [fn |-> "get_open_and_last", interval |-> 1, attempt |-> 0,
               requests |-> <<>>, responses |-> <<>>, result |-> "-"]

\* the request for granularity iv is answered with df
Requested(iv, df) ==
    [call EXCEPT !.requests = Append(@, iv), !.responses = Append(@, df)]

\* market.py:39-49  an intraday request is answered with a non-empty frame
IntradayHit ==
    /\ pc = "intraday"
    /\ \E df \in Frames :
          /\ Accepts(df)
          /\ call' = [Requested(Intervals[call.interval], df)
                         EXCEPT !.result = IntradayOpenLast(df)]
    /\ pc' = "returned"
    /\ UNCHANGED <<threshold_pct, file, cfg, mh, idx, state, loc, res,
                   processed, failed, effects, lastDir, lastDry>>

\* market.py:37-54  an intraday request is answered with an empty frame: next
\* attempt, next interval, or on to the daily fallback
IntradayEmpty ==
    /\ pc = "intraday"
    /\ \E df \in Frames :
          /\ ~Accepts(df)
          /\ call' = [Requested(Intervals[call.interval], df) EXCEPT
                         !.attempt = IF call.attempt + 1 < Attempts
                                     THEN call.attempt + 1 ELSE 0,
                         !.interval = IF call.attempt + 1 < Attempts
                                      THEN call.interval
                                      ELSE call.interval + 1]
    /\ pc' = IF call.attempt + 1 >= Attempts
                 /\ call.interval = Len(Intervals)
             THEN "daily" ELSE "intraday"
    /\ UNCHANGED <<threshold_pct, file, cfg, mh, idx, state, loc, res,
                   processed, failed, effects, lastDir, lastDry>>

\* market.py:57-67  the daily request is answered with a non-empty frame
DailyHit ==
    /\ pc = "daily"
    /\ \E df \in Frames :
          /\ Accepts(df)
          /\ call' = [Requested(DailyInterval, df)
                         EXCEPT !.result = DailyOpenLast(df)]
    /\ pc' = "returned"
    /\ UNCHANGED <<threshold_pct, file, cfg, mh, idx, state, loc, res,
                   processed, failed, effects, lastDir, lastDry>>

\* market.py:57-59  the daily request is answered with an empty frame:
\* RuntimeError("No data available")
DailyEmpty ==
    /\ pc = "daily"
    /\ \E df \in Frames :
          /\ ~Accepts(df)
          /\ call' = [Requested(DailyInterval, df) EXCEPT !.result = "nodata"]
    /\ pc' = "raised"
    /\ UNCHANGED <<threshold_pct, file, cfg, mh, idx, state, loc, res,
                   processed, failed, effects, lastDir, lastDry>>

NextQuote ==
    \/ IntradayHit
    \/ IntradayEmpty
    \/ DailyHit
    \/ DailyEmpty

\* one call of get_open_and_last against a provider answering as it likes
SpecQuote == InitQuote /\ [][NextQuote]_vars

\* -------------------------------------------------- fetch_headlines alone
Limits == 0..MaxLimit

\* a feed entry: whether it has both a title and a link, whether feedparser
\* gives it a published_parsed stamp, and how many hours before the call it
\* was published; the entries drawn sit on the cutoff and one hour past it
Entries(lookback) ==
    [titled : BOOLEAN, stamped : BOOLEAN, age : {lookback, lookback + 1}]

\* news.py:111  feed.entries[: max(10, limit * 3)]
Buffer(limit) == IF limit * 3 > 10 THEN limit * 3 ELSE 10

\* news.py:124-127  pub_dt < cutoff, for entries that carry a stamp
TooOld(e, lookback) == e.stamped /\ e.age > lookback

\* news.py:130-138  the item appended for entry e; published is "" when the
\* entry has no stamp
Item(e) == [published |-> IF e.stamped THEN "iso" ELSE "", age |-> e.age]

\* news.py:105-109  the feed is parsed, out is empty
InitFeed ==
    /\ threshold_pct = DefaultThreshold
    /\ file = [kind |-> "missing", map |-> EmptyMap]
    /\ pc = "feed"
    /\ InitRun
    /\ call \in {[fn |-> "fetch_headlines", limit |-> l, lookback_hours |-> h,
                   examined |-> 0, out |-> <<>>] :
                    l \in Limits, h \in LookbackChoices \cup {DefaultLookback}}

\* news.py:124-127  the next entry is older than the cutoff: continue
FeedSkipOld ==
    /\ pc = "feed"
    /\ call.examined < Buffer(call.limit)
    /\ \E e \in Entries(call.lookback_hours) :
          /\ TooOld(e, call.lookback_hours)
          /\ call' = [call EXCEPT !.examined = @ + 1]
    /\ UNCHANGED <<threshold_pct, file, cfg, mh, pc, idx, state, loc, res,
                   processed, failed, effects, lastDir, lastDry>>

\* news.py:130-140  the next entry passes the date filter: it is appended if
\* it has a title and a link; the loop breaks when len(out) >= limit
FeedTake ==
    /\ pc = "feed"
    /\ call.examined < Buffer(call.limit)
    /\ \E e \in Entries(call.lookback_hours) :
          /\ ~TooOld(e, call.lookback_hours)
          /\ LET out == IF e.titled THEN Append(call.out, Item(e))
                        ELSE call.out
             IN  /\ call' = [call EXCEPT !.examined = @ + 1, !.out = out]
                 /\ pc' = IF Len(out) >= call.limit THEN "fetched"
                          ELSE "feed"
    /\ UNCHANGED <<threshold_pct, file, cfg, mh, idx, state, loc, res,
                   processed, failed, effects, lastDir, lastDry>>

\* news.py:111,142  no entry is left in the slice: return out
FeedEnd ==
    /\ pc = "feed"
    /\ pc' = "fetched"
    /\ UNCHANGED <<call, threshold_pct, file, cfg, mh, idx, state, loc, res,
                   processed, failed, effects, lastDir, lastDry>>

NextFeed ==
    \/ FeedSkipOld
    \/ FeedTake
    \/ FeedEnd

\* one call of fetch_headlines on a feed of any length and content
SpecFeed == InitFeed /\ [][NextFeed]_vars

\* ---------------------------------------------------- filter_titles alone
\* strings are sequences of characters over a small alphabet with one
\* letter in both cases
Chars == {"a", "A", "b"}
Titles == UNION {[1..n -> Chars] : n \in 0..MaxTitle}
\* lists of items, each item standing for its title ("" also stands for a
\* missing or null title, news.py:50)
ItemLists == UNION {[1..n -> Titles] : n \in 0..2}
\* keywords as auto_keywords produces them (company.py:189-191): non-empty
\* strings, at most two different ones here
KeywordPool ==
    {<<"a">>, <<"A">>, <<"b">>, <<"A", "b">>, <<"b", "a">>}
KeywordSets == {K \in SUBSET KeywordPool : Cardinality(K) <= 2}

\* str.lower() on one character
LowerChar(c) == IF c = "A" THEN "a" ELSE c

\* str.lower()
Lower(str) == [i \in 1..Len(str) |-> LowerChar(str[i])]

\* k in title: k occurs in title as a contiguous substring
Contains(k, title) ==
    \E off \in 0..(Len(title) - Len(k)) :
        SubSeq(title, off + 1, off + Len(k)) = k

\* news.py:48  req = [k.lower() for k in required_keywords if k]
Req(kws) == {Lower(k) : k \in {x \in kws : x # <<>>}}

filter_titles_case_sensitive(items, kws) ==
    IF kws = {} THEN items
    ELSE SelectSeq(items, LAMBDA it : \E k \in Req(kws) : Contains(k, it))

\* news.py:44-53
filter_titles(items, kws) ==
    IF kws = {} THEN items
    ELSE SelectSeq(items,
                   LAMBDA it : \E k \in Req(kws) : Contains(k, Lower(it)))

\* news.py:31  the arguments of a call
InitFilter ==
    /\ threshold_pct = DefaultThreshold
    /\ file = [kind |-> "missing", map |-> EmptyMap]
    /\ pc = "filter"
    /\ InitRun
    /\ call \in {[fn |-> "filter_titles", items |-> its,
                   required_keywords |-> K, out |-> <<>>] :
                    its \in ItemLists, K \in KeywordSets}

\* news.py:44-53  the call returns
ApplyFilter ==
    /\ pc = "filter"
    /\ call' = [call EXCEPT
                  !.out = filter_titles(call.items, call.required_keywords)]
    /\ pc' = "filtered"
    /\ UNCHANGED <<threshold_pct, file, cfg, mh, idx, state, loc, res,
                   processed, failed, effects, lastDir, lastDry>>

NextFilter == ApplyFilter

\* one call of filter_titles on drawn items and keywords
SpecFilter == InitFilter /\ [][NextFilter]_vars

\* -------------------------------------------- _extract_original_url alone
\* a URL: its scheme ("" when it has none), its host, and the URL carried in
\* its url= query parameter (one of Params)
Schemes == {"", "http", "https"}
Aggregator == "news.google.com"
Hosts == {Aggregator, "example.com"}
NoUrl == [scheme |-> "-", host |-> "-", param |-> "none"]
\* what the url= parameter holds: nothing, a URL without a scheme ("bare")
\* or one with a scheme ("full")
Params == {"none", "bare", "full"}
ParamUrl(p) ==
    [scheme |-> IF p = "full" THEN "https" ELSE "",
     host |-> "publisher.com", param |-> "none"]
\* links as the feed gives them (news.py:113)
FeedLinks == [scheme : Schemes, host : Hosts, param : Params]
\* final URLs a probe may report (requests gives them with a scheme)
Targets ==
    {[scheme |-> "https", host |-> h, param |-> "none"] :
        h \in {"publisher.com", "consent.google.com"}}
Statuses == {200, 403, 404, 405, 500}

\* core.py:33-43  _ensure_https: prefix https:// when there is no scheme
ensure_https(u) ==
    IF u.scheme \in {"http", "https"} THEN u
    ELSE [u EXCEPT !.scheme = "https"]

IsAggregatorNever(u) == FALSE

\* core.py:66  "news.google.com" in p.netloc
IsAggregator(u) == u.host = Aggregator

NeedsGetNever(status) == FALSE

\* core.py:77  r.status_code in (403, 405)
NeedsGet(status) == status \in {403, 405}

\* core.py:242-243, 258-259, 116-118  every call site passes the link
\* through _ensure_https first
InitUrl ==
    /\ threshold_pct = DefaultThreshold
    /\ file = [kind |-> "missing", map |-> EmptyMap]
    /\ pc = "url_parse"
    /\ InitRun
    /\ call \in {[fn |-> "_extract_original_url", raw |-> l,
                   arg |-> ensure_https(l), link |-> ensure_https(l),
                   head |-> "-", head_url |-> NoUrl, head_status |-> 0,
                   get |-> "-", get_url |-> NoUrl, result |-> NoUrl] :
                    l \in FeedLinks}

\* the call returns u
UrlReturn(c, u) == [c EXCEPT !.result = u]

\* core.py:64-70,83  scheme ensured, URL parsed: an aggregator link with a
\* url= parameter returns that URL, another aggregator link goes on to the
\* probe, any other link is returned
UrlParse ==
    /\ pc = "url_parse"
    /\ LET link == ensure_https(call.arg)
           c == [call EXCEPT !.link = link]
       IN  IF IsAggregator(link) /\ link.param # "none"
           THEN /\ call' = UrlReturn(c, ensure_https(ParamUrl(link.param)))
                /\ pc' = "url_done"
           ELSE IF IsAggregator(link)
           THEN /\ call' = c
                /\ pc' = "url_head"
           ELSE /\ call' = UrlReturn(c, link)
                /\ pc' = "url_done"
    /\ UNCHANGED <<threshold_pct, file, cfg, mh, idx, state, loc, res,
                   processed, failed, effects, lastDir, lastDry>>

\* core.py:74-77,83  HEAD answered with final URL u and a status: a final URL
\* other than the link is returned; else 403/405 leads to GET; else the link
\* is returned
UrlHead ==
    /\ pc = "url_head"
    /\ \E u \in Targets \cup {call.link}, st \in Statuses :
          LET c == [call EXCEPT !.head = "answered", !.head_url = u,
                                   !.head_status = st]
          IN  IF u # call.link
              THEN call' = UrlReturn(c, ensure_https(u)) /\ pc' = "url_done"
              ELSE IF NeedsGet(st)
              THEN call' = c /\ pc' = "url_get"
              ELSE call' = UrlReturn(c, call.link) /\ pc' = "url_done"
    /\ UNCHANGED <<threshold_pct, file, cfg, mh, idx, state, loc, res,
                   processed, failed, effects, lastDir, lastDry>>

\* core.py:78-83  GET answered with final URL u
UrlGet ==
    /\ pc = "url_get"
    /\ \E u \in Targets \cup {call.link} :
          LET c == [call EXCEPT !.get = "answered", !.get_url = u]
          IN  call' = UrlReturn(c, IF u # call.link THEN ensure_https(u)
                                   ELSE call.link)
    /\ pc' = "url_done"
    /\ UNCHANGED <<threshold_pct, file, cfg, mh, idx, state, loc, res,
                   processed, failed, effects, lastDir, lastDry>>

\* core.py:81-85  the probe raises: a RequestException is passed over
\* (core.py:81-83), anything else is caught at core.py:84; both return link
UrlProbeFails ==
    /\ pc \in {"url_head", "url_get"}
    /\ \E e \in {"request_exception", "other_exception"} :
          call' = UrlReturn(IF pc = "url_head"
                            THEN [call EXCEPT !.head = e]
                            ELSE [call EXCEPT !.get = e], call.link)
    /\ pc' = "url_done"
    /\ UNCHANGED <<threshold_pct, file, cfg, mh, idx, state, loc, res,
                   processed, failed, effects, lastDir, lastDry>>

NextUrl ==
    \/ UrlParse
    \/ UrlHead
    \/ UrlGet
    \/ UrlProbeFails

\* one call of _extract_original_url from run_once or _format_headlines
SpecUrl == InitUrl /\ [][NextUrl]_vars

\* -------------------------------------------------- is_market_hours alone
\* offsets of the configured timezone from UTC, in hours
TzOffsets == {0 - 5, 0, 2}
\* configured windows, one of them ending at midnight's hour 0
StartHours == {StartHour, 9}
EndHours == {0, 17, EndHour}

\* core.py:127-133  now_tz: the weekday (Monday = 0) and hour of the UTC
\* instant utc in the zone that is off hours ahead of UTC
now_tz(utc, off) ==
    LET h == utc.hour + off
        shift == IF h < 0 THEN 0 - 1 ELSE IF h > 23 THEN 1 ELSE 0
    IN  [weekday |-> (utc.weekday + shift + 7) % 7, hour |-> (h + 24) % 24]

\* core.py:136  the market_hours section and the instant of the call
InitHours ==
    /\ threshold_pct = DefaultThreshold
    /\ file = [kind |-> "missing", map |-> EmptyMap]
    /\ pc = "hours"
    /\ InitRun
    /\ call \in {[fn |-> "is_market_hours",
                   cfg_mh |-> [enabled |-> e, days_mon_to_fri_only |-> d,
                               start_hour |-> sh, end_hour |-> eh,
                               tz |-> off],
                   utc |-> [weekday |-> wd, hour |-> h],
                   result |-> FALSE] :
                    e \in BOOLEAN, d \in BOOLEAN, sh \in StartHours,
                    eh \in EndHours, off \in TzOffsets, wd \in 0..6,
                    h \in 0..23}

\* core.py:151-156  the call returns
ApplyHours ==
    /\ pc = "hours"
    /\ LET n == now_tz(call.utc, call.cfg_mh.tz)
           c == call.cfg_mh
       IN  call' = [call EXCEPT !.result =
                      is_market_hours(
                        [enabled |-> c.enabled,
                         days_mon_to_fri_only |-> c.days_mon_to_fri_only,
                         weekday |-> n.weekday, hour |-> n.hour,
                         start_hour |-> c.start_hour,
                         end_hour |-> c.end_hour])]
    /\ pc' = "hours_done"
    /\ UNCHANGED <<threshold_pct, file, cfg, mh, idx, state, loc, res,
                   processed, failed, effects, lastDir, lastDry>>

NextHours == ApplyHours

\* one call of is_market_hours at a drawn instant
SpecHours == InitHours /\ [][NextHours]_vars

\* ------------------------------------------------- main.py and config.py

\* config.json as load_config finds it (config.py:79-85)
ConfigFiles == {"missing", "garbage", "object"}

\* values of ntfy.topic in config.json and of NTFY_TOPIC in the environment;
\* Absent is an absent key or an unset variable
TopicVals == {Absent, "", "CHANGE-ME", "secret"}

\* the tickers key of config.json: absent, [] or a non-empty list
TickerVals == {Absent, "empty", "some"}

\* the news key of config.json: absent or an object
NewsVals == {Absent, "section"}

\* the keys of config.json the start-up reads
UserConfigs == [topic : TopicVals, tickers : TickerVals, news : NewsVals]

NoUser == [topic |-> Absent, tickers |-> Absent, news |-> Absent]

\* config.py:9-37  DEFAULTS has a placeholder topic, one ticker and no news
\* key
DEFAULTS == [topic |-> "CHANGE-ME", tickers |-> "some", news |-> Absent]

\* config.py:40-54  values of the override take precedence
deep_merge(base, override) ==
    [k \in DOMAIN base |->
        IF override[k] # Absent THEN override[k] ELSE base[k]]

\* config.py:95-96  NTFY_TOPIC replaces the topic when set and non-empty
EnvOverride(c, env_topic) ==
    IF env_topic \notin {Absent, ""}
    THEN [c EXCEPT !.topic = env_topic] ELSE c

\* config.py:88-96  the configuration load_config validates
Merged(c) == EnvOverride(deep_merge(DEFAULTS, c.user), c.env_topic)

\* the validation without the ticker check
RejectsTopicOnly(c) ==
    c.topic \in {"", "CHANGE-ME"}

\* config.py:99-102  minimal validation
Rejects(c) ==
    \/ c.topic \in {"", "CHANGE-ME"}
    \/ c.tickers = "empty"

NoMerged == [topic |-> Absent, tickers |-> Absent, news |-> Absent]

\* main.py:8  the process starts with a config.json and an environment
InitMain ==
    /\ call \in {[fn |-> "main", config_json |-> f, user |-> u,
                  env_topic |-> e, cfg |-> NoMerged, raised |-> Absent] :
                    f \in ConfigFiles, u \in UserConfigs, e \in TopicVals}
    /\ call.config_json # "object" => call.user = NoUser
    /\ threshold_pct = DefaultThreshold
    /\ file = [kind |-> "missing", map |-> EmptyMap]
    /\ pc = "main"
    /\ InitRun

\* config.py:81-85  config.json exists and cannot be parsed: RuntimeError
LoadConfigUnreadable ==
    /\ pc = "main"
    /\ call.config_json = "garbage"
    /\ call' = [call EXCEPT !.raised = "RuntimeError"]
    /\ pc' = "main_raised"
    /\ UNCHANGED <<threshold_pct, file, cfg, mh, idx, state, loc, res,
                   processed, failed, effects, lastDir, lastDry>>

\* config.py:88-102  the merged configuration fails the validation:
\* RuntimeError out of main.py:22
LoadConfigRejects ==
    /\ pc = "main"
    /\ call.config_json # "garbage"
    /\ Rejects(Merged(call))
    /\ call' = [call EXCEPT !.raised = "RuntimeError"]
    /\ pc' = "main_raised"
    /\ UNCHANGED <<threshold_pct, file, cfg, mh, idx, state, loc, res,
                   processed, failed, effects, lastDir, lastDry>>

\* config.py:88-104  the merged configuration is returned
LoadConfigAccepts ==
    /\ pc = "main"
    /\ call.config_json # "garbage"
    /\ ~Rejects(Merged(call))
    /\ call' = [call EXCEPT !.cfg = Merged(call)]
    /\ pc' = "configured"
    /\ UNCHANGED <<threshold_pct, file, cfg, mh, idx, state, loc, res,
                   processed, failed, effects, lastDir, lastDry>>

\* main.py:25-33  logging is set up and the configuration logged
SetupLogging ==
    /\ pc = "configured"
    /\ pc' = "logged"
    /\ UNCHANGED <<call, threshold_pct, file, cfg, mh, idx, state, loc, res,
                   processed, failed, effects, lastDir, lastDry>>

\* main.py:39-48 with core.py:159-186  every argument is looked up and
\* run_once entered with the test and market-hours sections of the
\* configuration
MainRunOnce ==
    /\ pc = "logged"
    /\ call.cfg.news # Absent
    /\ cfg' \in GateCfgs
    /\ mh' \in MhInputs
    /\ pc' = "gate"
    /\ UNCHANGED <<call, threshold_pct, file, idx, state, loc, res,
                   processed, failed, effects, lastDir, lastDry>>

\* main.py:47  cfg["news"] on a configuration without the key: KeyError
\* before run_once is entered
MainKeyError ==
    /\ pc = "logged"
    /\ call.cfg.news = Absent
    /\ call' = [call EXCEPT !.raised = "KeyError"]
    /\ pc' = "main_raised"
    /\ UNCHANGED <<threshold_pct, file, cfg, mh, idx, state, loc, res,
                   processed, failed, effects, lastDir, lastDry>>

NextMain ==
    \/ LoadConfigUnreadable
    \/ LoadConfigRejects
    \/ LoadConfigAccepts
    \/ SetupLogging
    \/ MainRunOnce
    \/ MainKeyError
    \/ GateOutside
    \/ GateWithin

\* one start of the program, up to the market-hours gate of its cycle
SpecMain == InitMain /\ [][NextMain]_vars

\* ------------------------------------------------------------ company.py

\* lookups followed in one run of the cache model
MaxCalls == 3

\* company.py:84,97  retries + 1 provider requests per lookup
InfoAttempts == 3

\* ticker symbols as character sequences: plain, with an exchange suffix,
\* an index
Symbols == {<<"A">>, <<"S", ".", "D">>, <<"^", "G">>}

\* company.py:14-17  name words whose stripped, lower-cased form is in
\* LEGAL_SUFFIXES
LegalWords == {"Inc.", "Co."}

\* company.py:62  word.strip(",. ")
StripWord(w) ==
    CASE w = "Inc." -> "Inc"
      [] w = "Co." -> "Co"
      [] OTHER -> w

RECURSIVE DropLegal(_)
\* company.py:63-64  trailing legal suffixes are popped
DropLegal(parts) ==
    IF parts # <<>> /\ parts[Len(parts)] \in LegalWords
    THEN DropLegal(SubSeq(parts, 1, Len(parts) - 1))
    ELSE parts

\* company.py:54-65  a name is a sequence of words; the name itself when
\* nothing but suffixes is left
strip_legal_suffixes(name) ==
    LET parts == DropLegal(name)
    IN  IF parts # <<>> THEN [i \in 1..Len(parts) |-> StripWord(parts[i])]
        ELSE name

RECURSIVE UpToDot(_)
UpToDot(sym) ==
    IF sym = <<>> \/ Head(sym) = "." THEN <<>>
    ELSE <<Head(sym)>> \o UpToDot(Tail(sym))

\* company.py:68-81
base_ticker(sym) ==
    IF Head(sym) = "^" THEN sym ELSE UpToDot(sym)

\* a name field of the provider's info; <<>> stands for every value line 142
\* passes over (key absent, not a string, blank)
NoName == <<>>

\* what the provider can answer when it answers: any of the three names
\* usable or not
Infos ==
    [longName : {NoName, <<"Acme", "Inc.">>},
     shortName : {NoName, <<"Acme">>},
     displayName : {NoName, <<"Co.">>}]

\* company.py:107  the empty info after the last attempt
NoInfo == [longName |-> NoName, shortName |-> NoName, displayName |-> NoName]

\* a cache entry (company.py:164-169); NoEntry is an absent key
NoEntry == [name |-> <<>>, raw_name |-> <<>>, source |-> "-",
            base_ticker |-> <<>>]

\* company.py:136-145  the first usable name and its source
RawName(info) ==
    CASE info.longName # NoName ->
            [raw_name |-> info.longName, source |-> "info.longName"]
      [] info.longName = NoName /\ info.shortName # NoName ->
            [raw_name |-> info.shortName, source |-> "info.shortName"]
      [] info.longName = NoName /\ info.shortName = NoName
         /\ info.displayName # NoName ->
            [raw_name |-> info.displayName, source |-> "info.displayName"]
      [] OTHER -> [raw_name |-> NoName, source |-> "fallback"]

\* company.py:147-161  the metadata of a miss: the cleaned name, or the
\* base ticker when there is none
Meta(sym, info) ==
    LET r == RawName(info)
        clean == IF r.raw_name # NoName
                 THEN strip_legal_suffixes(r.raw_name) ELSE NoName
    IN  IF clean = NoName
        THEN [name |-> base_ticker(sym), raw_name |-> base_ticker(sym),
              source |-> "base_ticker", base_ticker |-> base_ticker(sym)]
        ELSE [name |-> clean, raw_name |-> r.raw_name,
              source |-> r.source, base_ticker |-> base_ticker(sym)]

EmptyCache == [t \in Symbols |-> NoEntry]

\* company_cache.json: missing, unparsable, or an object written by
\* _save_cache
CacheFiles ==
    {[kind |-> "missing", map |-> EmptyCache],
     [kind |-> "garbage", map |-> EmptyCache],
     [kind |-> "object",
      map |-> [EmptyCache EXCEPT ![<<"A">>] = Meta(<<"A">>, NoInfo)]],
     [kind |-> "object",
      map |-> [EmptyCache EXCEPT ![<<"S", ".", "D">>] =
                  [name |-> <<"Sap">>, raw_name |-> <<"Sap", "Inc.">>,
                   source |-> "info.longName", base_ticker |-> <<"S">>]]]}

\* company.py:39-46  the parsed object, or {} for a missing or unparsable
\* file
load_cache(f) == IF f.kind = "object" THEN f.map ELSE EmptyCache

\* a lookup that never finds the symbol
CacheHasNever(cache, sym) == FALSE

\* company.py:125  symbol in cache
CacheHas(cache, sym) == cache[sym] # NoEntry

\* a store that keeps named entries only
CacheAfterMissNamedOnly(cache, sym, e) ==
    IF e.source = "base_ticker" THEN cache ELSE [cache EXCEPT ![sym] = e]

\* company.py:164-169  cache[symbol] = {...}
CacheAfterMiss(cache, sym, e) == [cache EXCEPT ![sym] = e]

\* company.py:49-51  the whole mapping is written
save_cache(cache) == [kind |-> "object", map |-> cache]

\* the cache file on disk before the first lookup
InitCache ==
    /\ call \in {[fn |-> "get_company_meta", cache_file |-> f, before |-> f,
                  symbol |-> <<"A">>, attempt |-> 0, requests |-> 0,
                  sleeps |-> 0, info |-> NoInfo, writes |-> 0,
                  result |-> NoEntry, calls |-> 0] : f \in CacheFiles}
    /\ threshold_pct = DefaultThreshold
    /\ file = [kind |-> "missing", map |-> EmptyMap]
    /\ pc = "meta_idle"
    /\ InitRun

\* company.py:110,124  get_company_meta(symbol) is called and loads the
\* cache
MetaCall(sym) ==
    /\ pc \in {"meta_idle", "meta_returned", "meta_raised"}
    /\ call.calls < MaxCalls
    /\ call' = [call EXCEPT !.symbol = sym, !.before = call.cache_file,
                            !.attempt = 0, !.requests = 0, !.sleeps = 0,
                            !.info = NoInfo, !.writes = 0,
                            !.result = NoEntry, !.calls = call.calls + 1]
    /\ pc' = "meta_load"
    /\ UNCHANGED <<threshold_pct, file, cfg, mh, idx, state, loc, res,
                   processed, failed, effects, lastDir, lastDry>>

\* company.py:125-133  hit: the cached entry is returned
MetaHit ==
    /\ pc = "meta_load"
    /\ CacheHas(load_cache(call.cache_file), call.symbol)
    /\ call' = [call EXCEPT
                  !.result = load_cache(call.cache_file)[call.symbol]]
    /\ pc' = "meta_returned"
    /\ UNCHANGED <<threshold_pct, file, cfg, mh, idx, state, loc, res,
                   processed, failed, effects, lastDir, lastDry>>

\* company.py:125,135  miss: the provider is asked
MetaMiss ==
    /\ pc = "meta_load"
    /\ ~CacheHas(load_cache(call.cache_file), call.symbol)
    /\ pc' = "meta_fetch"
    /\ UNCHANGED <<call, threshold_pct, file, cfg, mh, idx, state, loc, res,
                   processed, failed, effects, lastDir, lastDry>>

\* company.py:97-106  a request raises: sleep, next attempt
FetchRaises ==
    /\ pc = "meta_fetch"
    /\ call.attempt < InfoAttempts
    /\ call' = [call EXCEPT !.attempt = call.attempt + 1,
                            !.requests = call.requests + 1,
                            !.sleeps = call.sleeps + 1]
    /\ pc' = "meta_fetch"
    /\ UNCHANGED <<threshold_pct, file, cfg, mh, idx, state, loc, res,
                   processed, failed, effects, lastDir, lastDry>>

\* company.py:97-103  a request answers with an empty info: next attempt
FetchEmpty ==
    /\ pc = "meta_fetch"
    /\ call.attempt < InfoAttempts
    /\ call' = [call EXCEPT !.attempt = call.attempt + 1,
                            !.requests = call.requests + 1]
    /\ pc' = "meta_fetch"
    /\ UNCHANGED <<threshold_pct, file, cfg, mh, idx, state, loc, res,
                   processed, failed, effects, lastDir, lastDry>>

\* company.py:97-103  a request answers with an info: returned
FetchInfo ==
    /\ pc = "meta_fetch"
    /\ call.attempt < InfoAttempts
    /\ \E i \in Infos :
          call' = [call EXCEPT !.attempt = call.attempt + 1,
                               !.requests = call.requests + 1,
                               !.info = i]
    /\ pc' = "meta_store"
    /\ UNCHANGED <<threshold_pct, file, cfg, mh, idx, state, loc, res,
                   processed, failed, effects, lastDir, lastDry>>

\* company.py:97,107  every attempt used: {}
FetchGivesUp ==
    /\ pc = "meta_fetch"
    /\ call.attempt = InfoAttempts
    /\ call' = [call EXCEPT !.info = NoInfo]
    /\ pc' = "meta_store"
    /\ UNCHANGED <<threshold_pct, file, cfg, mh, idx, state, loc, res,
                   processed, failed, effects, lastDir, lastDry>>

\* company.py:136-171  the metadata is built, put into the loaded cache,
\* the cache written and the metadata returned
MetaStore ==
    /\ pc = "meta_store"
    /\ LET e == Meta(call.symbol, call.info)
       IN  call' = [call EXCEPT
                      !.cache_file =
                          save_cache(CacheAfterMiss(
                              load_cache(call.cache_file), call.symbol, e)),
                      !.writes = call.writes + 1,
                      !.result = e]
    /\ pc' = "meta_returned"
    /\ UNCHANGED <<threshold_pct, file, cfg, mh, idx, state, loc, res,
                   processed, failed, effects, lastDir, lastDry>>

\* company.py:51,170  the cache file cannot be written: the OSError leaves
\* get_company_meta; the file is as it was
MetaStoreRaises ==
    /\ pc = "meta_store"
    /\ pc' = "meta_raised"
    /\ UNCHANGED <<call, threshold_pct, file, cfg, mh, idx, state, loc, res,
                   processed, failed, effects, lastDir, lastDry>>

NextCache ==
    \/ \E sym \in Symbols : MetaCall(sym)
    \/ MetaHit
    \/ MetaMiss
    \/ FetchRaises
    \/ FetchEmpty
    \/ FetchInfo
    \/ FetchGivesUp
    \/ MetaStore
    \/ MetaStoreRaises

\* a few lookups in a row against one cache file
SpecCache == InitCache /\ [][NextCache]_vars

TypeOK ==
    /\ file.kind \in FileKinds
    /\ file.map \in [Keys -> FileVals]
    /\ state \in [Keys -> FileVals] \cup {NotADict}
    /\ pc \in Stopped \cup {"gate", "quote", "news", "notify", "save",
                        "classify", "classified", "intraday", "daily",
                        "returned", "raised", "feed", "fetched",
                        "filter", "filtered", "url_parse", "url_head",
                        "url_get", "url_done", "hours", "hours_done",
                        "main", "configured", "logged", "main_raised",
                        "meta_idle", "meta_load", "meta_fetch",
                        "meta_store", "meta_returned", "meta_raised"}
    /\ idx \in 0..(Len(Tickers) + 1)

\* ----------------------------------------------------------------- claims

\* notify_ntfy was called for the ticker of the iteration
Called(r) == r.sent # "no"
\* notify_ntfy was called and returned
Dispatched(r) == r.sent \in {"dry", "sent", "failed"}
\* this step ends the loop iteration of the current ticker
EndsIteration == InLoop /\ processed' = processed \cup {tk} /\ tk \notin processed

\* C1: for every ticker whose quote is obtained with a nonzero open, a
\* notification is dispatched in this cycle if and only if direction is not
\* none and differs from prev, and after the dispatch the ticker's state
\* equals direction.
C1_DispatchIffCrossing ==
    (res.outcome \notin {"-", "nodata", "zero_open"}) =>
        /\ Called(res) <=> (res.direction # "none" /\ res.direction # res.prev)
        /\ Called(res) => state[res.tk] = res.direction

\* C2: with every quote fetch, dispatch and state save completing, a cycle
\* classified to a non-none direction d dispatches an alert exactly when it
\* is the first cycle of its run of d-cycles and the state was not already
\* latched to d; so each maximal run produces exactly one alert (none if
\* latched when it began).
C2_OneAlertPerRun ==
    [][(EndsIteration /\ res'.outcome \in {"ok", "news_err"}
            /\ res'.direction \in {"up", "down"})
        => (Dispatched(res')
              <=> (lastDir[tk] # res'.direction
                     /\ res'.prev # res'.direction))]_vars

C4_NoopFrame ==
    [][(EndsIteration /\ res'.direction \in Dirs
            /\ res'.direction = res'.prev)
        => /\ pc = "quote"
           /\ state' = state
           /\ file' = file
           /\ ~Called(res')
           /\ effects' = {"quote"}]_vars

C4_Witness ==
    /\ res.direction = "up" /\ res.prev = "up" /\ res.outcome = "ok"
    /\ state[res.tk] = "up"

\* C5: for a positive threshold the classification is up when pct >=
\* threshold, down when pct <= -threshold, none strictly in between, and
\* exactly one of the three cases holds.
C5_Classification ==
    (loc.direction # "-" /\ threshold_pct > 0) =>
        LET p == loc.pct
            t == threshold_pct
            cases == {<<"up", p >= t>>, <<"down", p <= 0 - t>>,
                      <<"none", 0 - t < p /\ p < t>>}
        IN  /\ \A c \in cases : c[2] <=> (loc.direction = c[1])
            /\ Cardinality({c \in cases : c[2]}) = 1

C5_Witness ==
    /\ pc = "classified" /\ loc.pct = threshold_pct /\ loc.direction = "up"

C7_ZeroOpen ==
    [][(EndsIteration /\ res'.outcome = "zero_open")
        => /\ ~Called(res')
           /\ effects' = {"quote"}
           /\ state' = state
           /\ file' = file
           /\ tk \in failed'
           /\ idx' = idx + 1
           /\ pc' = (IF idx < Len(Tickers) THEN "quote" ELSE "done")]_vars

C7_Witness ==
    /\ pc = "quote" /\ idx = 2 /\ res.tk = "A" /\ res.outcome = "zero_open"
    /\ state = load_state(file)

C9_FailedDispatchLatched ==
    (res.sent = "failed") =>
        /\ state[res.tk] = res.direction
        /\ load_state(file)[res.tk] = res.direction

\* C10: outside the trading-hours window and without a test-mode bypass the
\* pass ends at the gate: nothing is read, written, requested or dispatched.
C10_OutsideHoursNoEffects ==
    [][(/\ pc = "gate"
        /\ mh.enabled
        /\ \/ (mh.days_mon_to_fri_only /\ mh.weekday >= 5)
           \/ mh.hour < StartHour
           \/ mh.hour >= EndHour
        /\ ~(cfg.enabled /\ cfg.bypass_market_hours))
        => /\ pc' = "outside"
           /\ file' = file
           /\ state' = EmptyMap
           /\ effects' = {}
           /\ processed' = {}]_vars

C10_Witness ==
    /\ pc = "outside" /\ mh.enabled /\ mh.hour = EndHour /\ mh.weekday < 5
    /\ cfg.enabled /\ ~cfg.bypass_market_hours
    /\ effects = {} /\ processed = {}

\* C11: with test mode enabled and bypass_market_hours set the pass goes
\* past the gate whatever the clock and weekday, loads the state and starts
\* with the first ticker, and a pass that reaches its end has processed
\* every ticker; without the bypass in effect (test mode disabled or flag
\* unset) the pass goes past the gate exactly when is_market_hours holds.
C11_BypassOrMarketHours ==
    [][/\ (pc = "gate" /\ cfg.enabled /\ cfg.bypass_market_hours)
            => /\ pc' = "quote" /\ idx' = 1
               /\ state' = load_state(file)
               /\ "read" \in effects'
       /\ (pc = "gate" /\ ~(cfg.enabled /\ cfg.bypass_market_hours))
            => /\ (pc' = "quote") <=> is_market_hours(mh)
               /\ (pc' = "outside") <=> ~is_market_hours(mh)
       /\ (pc' = "done" /\ pc # "done") => processed' = TickerSet]_vars

C11_Witness ==
    /\ pc = "quote" /\ idx = 1 /\ "bypassed" \in effects
    /\ cfg.enabled /\ cfg.bypass_market_hours
    /\ state = load_state(file) /\ file.kind = "object"

\* the state file is missing or malformed: no file, unparsable text, JSON
\* that is not an object, or an object holding something other than a
\* direction
Malformed(f) ==
    \/ f.kind \in {"missing", "garbage", "nondict"}
    \/ \E k \in Keys : f.map[k] = "other"

\* C12: when the state file is missing or malformed it is discarded: no error
\* ends a ticker's iteration at the state read, every ticker is processed
\* with prev = none, and a breakout whose enrichment, dispatch and save
\* complete fires its alert.
C12_MalformedStateDiscarded ==
    [][(EndsIteration /\ Malformed(file)
            /\ res'.outcome \notin {"nodata", "zero_open", "news_err",
                                    "dispatch_err", "save_err"})
        => /\ res'.outcome = "ok"
           /\ res'.prev = "none"
           /\ res'.direction \in {"up", "down"} => Dispatched(res')]_vars

\* the seven requests a call can make, in order
FullLadder == <<"1m", "1m", "5m", "5m", "15m", "15m", "1d">>
IsPrefix(a, b) == Len(a) <= Len(b) /\ \A i \in 1..Len(a) : a[i] = b[i]
AllEmpty(rs) == \A i \in 1..Len(rs) : rs[i] = <<>>

\* C13: the requests of a call are a prefix of 1m, 1m, 5m, 5m, 15m, 15m, 1d
\* (so at most seven, the daily one only after six empty intraday answers);
\* every answer before the last is empty; the call returns exactly on the
\* first non-empty answer and requests nothing after it; it raises the
\* no-data error exactly when all seven answers were empty.
C13_RequestLadder ==
    (call.fn = "get_open_and_last") =>
        LET n == Len(call.requests) IN
        /\ IsPrefix(call.requests, FullLadder)
        /\ Len(call.responses) = n
        /\ AllEmpty(SubSeq(call.responses, 1, n - 1))
        /\ (pc = "returned") <=> (n > 0 /\ call.responses[n] # <<>>)
        /\ (pc = "raised") <=> (n = 7 /\ AllEmpty(call.responses))
        /\ (pc \in {"intraday", "daily"})
              <=> (n < 7 /\ AllEmpty(call.responses))
        /\ (pc = "daily") => n = 6

C13_Witness ==
    /\ pc = "returned" /\ call.requests = SubSeq(FullLadder, 1, 4)
    /\ call.responses[4] # <<>>

C13_WitnessNoData ==
    /\ pc = "raised" /\ call.requests = FullLadder
    /\ AllEmpty(call.responses)

\* C14: a call that returns on an intraday answer returns the Open of the
\* first sample and the Close of the last sample of that series; a call that
\* returns on the daily answer returns the Open and the Close of one and the
\* same sample, the most recent one.
C14_OpenAndLast ==
    (call.fn = "get_open_and_last" /\ pc = "returned") =>
        LET n == Len(call.requests)
            df == call.responses[n]
        IN  IF call.requests[n] = "1d"
            THEN /\ call.result.open = df[Len(df)].Open
                 /\ call.result.last = df[Len(df)].Close
            ELSE /\ call.result.open = Head(df).Open
                 /\ call.result.last = df[Len(df)].Close

C14_Witness ==
    /\ pc = "returned" /\ Len(call.requests) = 2
    /\ Len(call.responses[2]) = 2
    /\ call.responses[2][1].Close # call.responses[2][2].Close
    /\ call.result = [open |-> 100, last |-> 103]

C14_WitnessDaily ==
    /\ pc = "returned" /\ Len(call.requests) = 7
    /\ Len(call.responses[7]) = 2
    /\ call.responses[7][1].Open # call.responses[7][2].Open
    /\ call.result.open = call.responses[7][2].Open

\* C15: whenever the state machine decides to fire, the notification is
\* dispatched and the state latched in that cycle whatever the outcome of the
\* news enrichment (dispatch and save themselves completing).
C15_NewsFailureAbsorbed ==
    (/\ res.direction \in {"up", "down"}
     /\ res.direction # res.prev
     /\ res.outcome \notin {"dispatch_err", "save_err"})
        => /\ res.outcome = "ok"
           /\ Dispatched(res)
           /\ state[res.tk] = res.direction

\* C19: with news enabled, an alert about to be dispatched has had the
\* primary-locale fetch + filter first, with the configured lookback; the secondary-locale fetch + filter is made
\* exactly when the primary one yielded no items, with a lookback of
\* max(12, configured lookback) hours, and when it was made its result
\* (possibly empty) is the one in the alert body.
C19_FallbackLocale ==
    (cfg.news_enabled /\ pc \in {"notify", "save"}
        /\ loc.direction \in {"up", "down"}) =>
        LET f == loc.fetched
            n == Len(f)
        IN  /\ n \in {1, 2}
            /\ f[1].locale = "primary"
            /\ f[1].lookback = cfg.lookback_hours
            /\ (n = 2) <=> (f[1].items = 0)
            /\ n = 2 =>
                  /\ f[2].locale = "fallback"
                  /\ f[2].lookback >= 12
                  /\ f[2].lookback >= cfg.lookback_hours
                  /\ f[2].lookback \in {12, cfg.lookback_hours}
                  /\ loc.news = "fallback"
            /\ n = 1 => loc.news = "primary"
            /\ loc.items = f[n].items

C19_Witness ==
    /\ pc = "save" /\ cfg.news_enabled /\ cfg.lookback_hours = 6
    /\ Len(loc.fetched) = 2 /\ loc.fetched[2].lookback = 12
    /\ loc.fetched[2].items = 0 /\ loc.items = 0 /\ loc.sent = "sent"

\* C16: for every limit >= 0 fetch_headlines holds at most limit items at any
\* time, once it has collected an item goes on examining entries only while
\* fewer than limit are collected, and examines no more than
\* max(10, limit * 3) entries.
C16_AtMostLimit ==
    (call.fn = "fetch_headlines") =>
        /\ Len(call.out) <= call.limit
        /\ (pc = "feed" /\ Len(call.out) > 0) => Len(call.out) < call.limit
        /\ call.examined <= Buffer(call.limit)

\* C17: every item fetch_headlines returns was published within
\* lookback_hours of the call, whether or not its entry carries a stamp.
C17_WithinLookback ==
    (call.fn = "fetch_headlines" /\ pc = "fetched") =>
        \A k \in 1..Len(call.out) : call.out[k].age <= call.lookback_hours

\* keyword k occurs in title t when case is ignored
OccursIn(k, t) ==
    \E off \in 0..(Len(t) - Len(k)) :
        \A j \in 1..Len(k) : LowerChar(t[off + j]) = LowerChar(k[j])

\* C18: filter_titles with an empty keyword set returns the input list as it
\* is; with keywords none of which occurs in any title (case ignored) it
\* returns the empty list; with any non-empty keyword set it returns exactly
\* the items whose title contains at least one keyword, in their input order.
C18_FilterTitles ==
    (call.fn = "filter_titles" /\ pc = "filtered") =>
        LET its == call.items
            K == call.required_keywords
            out == call.out
            kept == {i \in 1..Len(its) : \E k \in K : OccursIn(k, its[i])}
            nth(j) == CHOOSE i \in kept :
                          Cardinality({m \in kept : m <= i}) = j
        IN  /\ K = {} => out = its
            /\ (K # {} /\ kept = {}) => out = <<>>
            /\ K # {} =>
                  /\ Len(out) = Cardinality(kept)
                  /\ \A j \in 1..Len(out) : out[j] = its[nth(j)]

C18_Witness ==
    /\ pc = "filtered"
    /\ call.required_keywords = {<<"A", "b">>}
    /\ call.items = << <<"b">>, <<"a", "b">> >>
    /\ call.out = << <<"a", "b">> >>

\* C20: a call of notify_ntfy with dry_run set makes no request and logs the
\* would-be title and body instead; a call with dry_run unset makes exactly
\* one request (none was made before it in the iteration, one has been made
\* after it) and writes no dry-run log.
C20_DryRunNoRequest ==
    [][(pc = "notify" /\ pc' # "crashed")
        => IF cfg.dry_run
           THEN /\ "post" \notin effects'
                /\ "drylog" \in effects'
                /\ loc'.sent = "dry"
           ELSE /\ "post" \notin effects
                /\ effects' = effects \cup {"post"}
                /\ "drylog" \notin effects']_vars

C20_Witness ==
    /\ pc = "save" /\ cfg.dry_run /\ loc.sent = "dry"
    /\ loc.direction \in {"up", "down"}
    /\ "drylog" \in effects /\ "post" \notin effects

\* the probe of the call ended in an exception
ProbeFailed(c) ==
    \/ c.head \in {"request_exception", "other_exception"}
    \/ c.get \in {"request_exception", "other_exception"}

C22_ForcedDelta ==
    [][/\ (EndsIteration /\ pc = "quote" /\ res'.outcome = "ok"
            /\ cfg.enabled /\ cfg.force_set)
          => /\ (res'.direction = "up")
                  <=> (cfg.force_delta_pct >= threshold_pct)
             /\ (res'.direction = "down")
                  <=> (cfg.force_delta_pct <= 0 - threshold_pct)
       /\ (pc = "quote" /\ InLoop /\ loc'.direction # "-") =>
          LET l == loc'
              thr == threshold_pct
              f == cfg.force_delta_pct
          IN  IF cfg.enabled /\ cfg.force_set
              THEN /\ l.pct = f
                   /\ (l.direction = "up") <=> (f >= thr)
                   /\ (l.direction = "down") <=> (f <= 0 - thr)
                   /\ l.last_px * 100 = l.open_px * (100 + f)
              ELSE /\ l.last_px = l.fetched_last
                   /\ l.pct * l.open_px = (l.fetched_last - l.open_px) * 100
                   /\ (l.direction = "up")
                        <=> ((l.fetched_last - l.open_px) * 100
                                >= thr * l.open_px)
                   /\ (l.direction = "down")
                        <=> ((l.fetched_last - l.open_px) * 100
                                <= (0 - thr) * l.open_px)]_vars

C22_Witness ==
    /\ pc = "save" /\ cfg.enabled /\ cfg.force_set
    /\ cfg.force_delta_pct = 4 /\ loc.direction = "up"
    /\ loc.open_px = 5000 /\ loc.last_px = 5200
    /\ loc.fetched_last = 4900 /\ loc.sent = "sent"

\* C28: with test mode enabled and a forced delta at or beyond the
\* threshold, a ticker whose quote cannot be obtained or whose open is 0
\* ends its iteration in the per-ticker error: nothing is dispatched and the
\* state mapping and the state file stay as they were.
C28_ForcedNeedsQuote ==
    [][(/\ EndsIteration
        /\ cfg.enabled /\ cfg.force_set
        /\ (cfg.force_delta_pct >= threshold_pct
              \/ cfg.force_delta_pct <= 0 - threshold_pct)
        /\ res'.quote \in {"nodata", "zero"})
        => /\ res'.outcome \in {"nodata", "zero_open"}
           /\ pc = "quote"
           /\ tk \in failed'
           /\ ~Called(res')
           /\ "post" \notin effects'
           /\ state' = state
           /\ file' = file]_vars

C28_Witness ==
    /\ cfg.enabled /\ cfg.force_set /\ cfg.force_delta_pct = 4
    /\ res.tk = "A" /\ res.quote = "zero" /\ res.outcome = "zero_open"
    /\ state = load_state(file) /\ StateGet(state, "A") = "none"
    /\ pc = "quote" /\ idx = 2

\* local time of a call: hours since Monday 00:00 in the configured zone
LocalHourOfWeek(c) ==
    (c.utc.weekday * 24 + c.utc.hour + c.cfg_mh.tz + 168) % 168

\* C23: is_market_hours returns true whenever the check is disabled;
\* otherwise false on Saturday and Sunday (local time) when the
\* Monday-to-Friday gate is on, and in all other cases true exactly when
\* start_hour <= local hour < end_hour.
C23_MarketHours ==
    (call.fn = "is_market_hours" /\ pc = "hours_done") =>
        LET m == call.cfg_mh
            how == LocalHourOfWeek(call)
            weekend == how >= 5 * 24
            hour == how % 24
        IN  /\ ~m.enabled => call.result
            /\ (m.enabled /\ m.days_mon_to_fri_only /\ weekend)
                  => ~call.result
            /\ (m.enabled /\ ~(m.days_mon_to_fri_only /\ weekend))
                  => (call.result
                        <=> (m.start_hour <= hour /\ hour < m.end_hour))

C23_Witness ==
    /\ pc = "hours_done" /\ call.cfg_mh.enabled
    /\ call.cfg_mh.days_mon_to_fri_only
    /\ call.utc = [weekday |-> 4, hour |-> 23] /\ call.cfg_mh.tz = 2
    /\ call.cfg_mh.start_hour = StartHour /\ ~call.result

\* ---- C24, C29: start-up

\* the configuration is one the start-up must refuse: the ticker list is
\* empty, or no usable topic is given by config.json or the environment
Misconfigured(c) ==
    \/ c.user.tickers = "empty"
    \/ c.env_topic = "CHANGE-ME"
    \/ /\ c.env_topic \in {Absent, ""}
       /\ c.user.topic \in {Absent, "", "CHANGE-ME"}

\* C24: with an empty ticker list, or a missing or placeholder topic,
\* load_config raises and main never enters run_once: the start-up is at
\* its first step or stopped by the RuntimeError, and no state read, quote
\* request or dispatch has happened.
C24_MisconfigurationFatal ==
    (call.fn = "main" /\ Misconfigured(call)) =>
        /\ pc \in {"main", "main_raised"}
        /\ pc = "main_raised" => call.raised = "RuntimeError"
        /\ call.cfg = NoMerged
        /\ effects = {}

\* an empty ticker list with a topic from the environment is refused
C24_Witness ==
    /\ call.fn = "main" /\ pc = "main_raised"
    /\ call.config_json = "object"
    /\ call.user.tickers = "empty"
    /\ call.env_topic = "secret"
    /\ call.raised = "RuntimeError"

\* C29: once load_config has accepted a configuration, main does not stop
\* before run_once: no argument lookup raises, also when config.json has
\* no news section.
C29_AcceptedReachesRunOnce ==
    (call.fn = "main" /\ call.cfg # NoMerged) => pc # "main_raised"

\* ---- C25, C30: company-metadata cache

\* the symbol of the lookup was in the cache file when the lookup began
WasCached(c) == c.before.kind = "object" /\ c.before.map[c.symbol] # NoEntry

\* the entries of the other symbols that could be read when the lookup
\* began are in the cache file as they were
OthersKept(c) ==
    \A t \in Symbols \ {c.symbol} :
        (c.before.kind = "object" /\ c.before.map[t] # NoEntry) =>
            /\ c.cache_file.kind = "object"
            /\ c.cache_file.map[t] = c.before.map[t]

FallbackOf(sym) ==
    LET b == CASE sym = <<"S", ".", "D">> -> <<"S">>
               [] OTHER -> sym
    IN  [name |-> b, raw_name |-> b, source |-> "base_ticker",
         base_ticker |-> b]

\* the provider gave no info in any attempt, or an info without a usable
\* name
NoUsableName(c) ==
    /\ c.info.longName = NoName
    /\ c.info.shortName = NoName
    /\ c.info.displayName = NoName

\* the cache file holds the fallback entry for the symbol
HoldsFallback(f, sym) == f.kind = "object" /\ f.map[sym] = FallbackOf(sym)

\* once the fallback is in the cache it stays, and a lookup of the symbol
\* asks the provider nothing and returns the fallback
FallbackSticks ==
    \A sym \in Symbols :
        HoldsFallback(call.cache_file, sym) =>
            /\ HoldsFallback(call'.cache_file, sym)
            /\ call'.symbol = sym =>
                  /\ call'.requests = 0
                  /\ pc' \notin {"meta_fetch", "meta_store", "meta_raised"}
                  /\ pc' = "meta_returned" => call'.result = FallbackOf(sym)

OnDisk(f, k) == IF f.kind = "object" THEN f.map[k] ELSE Absent

====
